---- MODULE Spec2Model ----
(***************************************************************************)
(* A model of teo8192/lsys: the nom-based grammar parser (lsystem.rs), the *)
(* rewriting engine (LSystem's step / reset / Iterator::next,              *)
(* Instruction::apply) and the turtle interpreter (graphics.rs,            *)
(* Turtle::draw).                                                          *)
(*                                                                         *)
(* A &str is a sequence of characters; a character is a one-element TLA+   *)
(* string, except the two-byte character U+00E9, written "U+00E9".         *)
(***************************************************************************)
EXTENDS Integers, Sequences, FiniteSets, TLC

VARIABLES
    input,      \* the &str handed to the parser entry point
    pc,         \* where the driver is: "start", "iter", "draw", "done"
    called,     \* which entry point produced `result`
    result,     \* the IResult / Result the entry point returned
    word,       \* LSystem.word
    axiom,      \* LSystem.axiom
    rules,      \* LSystem.rules
    pulls,      \* history: calls of next() since construction or the last reset()
    item,       \* history: what the last next() returned (<<>> : none yet)
    arg,        \* Instruction::apply's receiver
    out,        \* Instruction::apply's return value
    stack,      \* Turtle::draw's call stack, innermost frame last
    ret,        \* the Result a draw frame has just returned to its caller
    lines,      \* the segments the sink has recorded, in call order
    calls,      \* history: what each draw_line call returned, in call order
    restored    \* history: the pre-branch state of the frame that just returned

vars == <<input, pc, called, result, word, axiom, rules, pulls, item,
          arg, out, stack, ret, lines, calls, restored>>

-----------------------------------------------------------------------------
(* Sequences and characters *)

RECURSIVE SeqsUpTo(_, _)
SeqsUpTo(S, n) ==
    IF n = 0 THEN {<<>>}
    ELSE LET shorter == SeqsUpTo(S, n - 1)
         IN  shorter \cup {Append(s, c) : s \in {t \in shorter : Len(t) = n - 1}, c \in S}

RECURSIVE Concat(_)
Concat(ss) == IF ss = <<>> THEN <<>> ELSE Head(ss) \o Concat(Tail(ss))

Drop(s, k) == SubSeq(s, k + 1, Len(s))
Take(s, k) == SubSeq(s, 1, k)

Eacute == "U+00E9"

\* char::len_utf8
len_utf8(c) == IF c = Eacute THEN 2 ELSE 1

\* str::len: the length in bytes
RECURSIVE len(_)
len(s) == IF s = <<>> THEN 0 ELSE len_utf8(Head(s)) + len(Tail(s))

\* char::is_whitespace (White_Space), on the characters of the model
is_whitespace(c) == c \in {" ", "\n", "\t", "\r"}

-----------------------------------------------------------------------------
(* Instruction (lsystem.rs) *)

Symbol(c) == [kind |-> "Symbol", c |-> c, ins |-> <<>>]
Branch(instrs) == [kind |-> "Branch", c |-> "", ins |-> instrs]

-----------------------------------------------------------------------------
(* nom: IResult and the combinators the parser uses *)

Ok(rest, val) == [ok |-> TRUE, rest |-> rest, val |-> val]
Err(at) == [ok |-> FALSE, rest |-> at, val |-> <<>>]

\* tag(t): the input must start with the characters of t
tag(t, in) ==
    IF Len(in) >= Len(t) /\ Take(in, Len(t)) = t
    THEN Ok(Drop(in, Len(t)), t) ELSE Err(in)

is_branch_symbol(c) == c = "[" \/ c = "]"

to_symbol(s) ==
    IF len(s) # 1 THEN Err(s)
    ELSE LET c == s[1]
         IN  IF is_branch_symbol(c) THEN Err(s)
             ELSE IF is_whitespace(c) THEN Err(s)
             ELSE IF c = ";" THEN Err(s)
             ELSE Ok(<<>>, Symbol(c))

\* take_while_m_n(1, 1, |c| !is_branch_symbol(c)): exactly one character
take_one(in) ==
    IF in = <<>> \/ is_branch_symbol(in[1]) THEN Err(in)
    ELSE Ok(Tail(in), <<in[1]>>)

\* In the parsers below a local operator stands for "the rest of the function,
\* given this sub-parser's result": `let (input, x) = f(input)?;` returns f's
\* error, or goes on with its result.

\* map_res(take_while_m_n(..), to_symbol)
single_instruction(in) ==
    LET Mapped(t, s) == IF s.ok THEN Ok(t.rest, s.val) ELSE Err(in)
        Taken(t) == IF t.ok THEN Mapped(t, to_symbol(t.val)) ELSE Err(in)
    IN  Taken(take_one(in))

\* iterator(input, single_instruction).collect(), with the input left over
RECURSIVE CollectSingle(_, _)
CollectSingle(in, acc) ==
    LET More(r) == IF r.ok THEN CollectSingle(r.rest, Append(acc, r.val))
                   ELSE Ok(in, acc)
    IN  More(single_instruction(in))

simple_instructions(in) ==
    LET Finish(it) == IF it.val = <<>> THEN Err(in) ELSE it
    IN  Finish(CollectSingle(in, <<>>))

\* iterator(input, alt((tag(" "), tag("\n"), tag("\t")))): the input left over
RECURSIVE SkipWs(_)
SkipWs(in) ==
    IF in # <<>> /\ in[1] \in {" ", "\n", "\t"} THEN SkipWs(Tail(in)) ELSE in

remove_whitespace(in) ==
    LET Finish(after) == IF Len(after) = Len(in) THEN Err(in) ELSE Ok(after, <<>>)
    IN  Finish(SkipWs(in))

\* opt(remove_whitespace): the input left over
opt_ws(in) == SkipWs(in)

RECURSIVE instructions(_), branch(_), CollectAlt(_, _)

\* as branch, but the closing bracket may be missing
branch_unclosed(in) ==
    LET Closed(body, close) ==
            IF close.ok THEN Ok(close.rest, <<Branch(body.val)>>)
            ELSE Ok(body.rest, <<Branch(body.val)>>)
        Inside(body) ==
            IF body.ok THEN Closed(body, tag(<<"]">>, body.rest)) ELSE Err(in)
        Opened(open) ==
            IF open.ok THEN Inside(instructions(open.rest)) ELSE Err(in)
    IN  Opened(tag(<<"[">>, in))

branch(in) ==
    LET Closed(body, close) ==
            IF close.ok THEN Ok(close.rest, <<Branch(body.val)>>) ELSE Err(in)
        Inside(body) ==
            IF body.ok THEN Closed(body, tag(<<"]">>, body.rest)) ELSE Err(in)
        Opened(open) ==
            IF open.ok THEN Inside(instructions(open.rest)) ELSE Err(in)
    IN  Opened(tag(<<"[">>, in))

\* alt((simple_instructions, branch, |input| remove_whitespace(input) -> vec![]))
alt(in) ==
    LET Third(b) == IF b.ok THEN b ELSE remove_whitespace(in)
        Second(s) == IF s.ok THEN s ELSE Third(branch(in))
    IN  Second(simple_instructions(in))

\* iterator(input, alt(..)).flatten().collect(), with the input left over
CollectAlt(in, acc) ==
    LET More(r) == IF r.ok THEN CollectAlt(r.rest, acc \o r.val) ELSE Ok(in, acc)
    IN  More(alt(in))

instructions(in) == CollectAlt(opt_ws(in), <<>>)

\* as rule, but the left-hand side may also be a bracketed branch
rule_from_any(in) ==
    LET Target(from, target) ==
            IF target.ok THEN Ok(target.rest, <<from.val, target.val>>) ELSE Err(in)
        Arrow(from, arrow) ==
            IF arrow.ok THEN Target(from, instructions(opt_ws(arrow.rest))) ELSE Err(in)
        From(from) ==
            IF from.ok THEN Arrow(from, tag(<<"-", ">">>, opt_ws(from.rest))) ELSE Err(in)
        AsFrom(b) == IF b.ok THEN Ok(b.rest, b.val[1]) ELSE Err(in)
        Either(s) == IF s.ok THEN s ELSE AsFrom(branch(opt_ws(in)))
    IN  From(Either(single_instruction(opt_ws(in))))

\* as rule, but blanks before the left-hand side are not skipped
rule_no_leading_ws(in) ==
    LET Target(from, target) ==
            IF target.ok THEN Ok(target.rest, <<from.val, target.val>>) ELSE Err(in)
        Arrow(from, arrow) ==
            IF arrow.ok THEN Target(from, instructions(opt_ws(arrow.rest))) ELSE Err(in)
        From(from) ==
            IF from.ok THEN Arrow(from, tag(<<"-", ">">>, opt_ws(from.rest))) ELSE Err(in)
    IN  From(single_instruction(in))

rule(in) ==
    LET Target(from, target) ==
            IF target.ok THEN Ok(target.rest, <<from.val, target.val>>) ELSE Err(in)
        Arrow(from, arrow) ==
            IF arrow.ok THEN Target(from, instructions(opt_ws(arrow.rest))) ELSE Err(in)
        From(from) ==
            IF from.ok THEN Arrow(from, tag(<<"-", ">">>, opt_ws(from.rest))) ELSE Err(in)
    IN  From(single_instruction(opt_ws(in)))

\* as terminate, but the ";" is optional
terminate_optional(r, in) ==
    LET Semi(semi) == IF semi.ok THEN Ok(semi.rest, r.val) ELSE Ok(r.rest, r.val)
    IN  IF r.ok THEN Semi(tag(<<";">>, opt_ws(r.rest))) ELSE Err(in)

\* terminate(f), given f's result on the input
terminate(r, in) ==
    LET Semi(semi) == IF semi.ok THEN Ok(semi.rest, r.val) ELSE Err(in)
    IN  IF r.ok THEN Semi(tag(<<";">>, opt_ws(r.rest))) ELSE Err(in)

\* iterator(input, terminate(rule)).collect(), with the input left over
RECURSIVE CollectRules(_, _)
CollectRules(in, acc) ==
    LET More(r) == IF r.ok THEN CollectRules(r.rest, Append(acc, r.val))
                   ELSE Ok(in, acc)
    IN  More(terminate(rule(in), in))

LSystem(instr, rs) == [word |-> instr, axiom |-> instr, rules |-> rs]

\* as lsystem, but input left over after the rules is an error
lsystem_all_consuming(in) ==
    LET Rules(instr, it) ==
            IF it.rest = <<>> THEN Ok(it.rest, LSystem(instr.val, it.val)) ELSE Err(in)
        Axiom(instr) ==
            IF instr.ok THEN Rules(instr, CollectRules(instr.rest, <<>>)) ELSE Err(in)
    IN  Axiom(terminate(instructions(in), in))

lsystem(in) ==
    LET Rules(instr, it) == Ok(it.rest, LSystem(instr.val, it.val))
        Axiom(instr) ==
            IF instr.ok THEN Rules(instr, CollectRules(instr.rest, <<>>)) ELSE Err(in)
    IN  Axiom(terminate(instructions(in), in))

\* LSystem::from_str: the remaining input is dropped
from_str(in) ==
    LET Parsed(r) == IF r.ok THEN Ok(<<>>, r.val) ELSE Err(in)
    IN  Parsed(lsystem(in))

-----------------------------------------------------------------------------
(* The rewriting engine (lsystem.rs, impl LSystem / impl Instruction) *)

NoRule == [found |-> FALSE, to |-> <<>>]

\* as FindRule, but a later matching rule overrides an earlier one
RECURSIVE FindLastRule(_, _)
FindLastRule(self, rs) ==
    IF rs = <<>> THEN NoRule
    ELSE IF FindLastRule(self, Tail(rs)).found THEN FindLastRule(self, Tail(rs))
    ELSE IF Head(rs)[1] = self THEN [found |-> TRUE, to |-> Head(rs)[2]]
    ELSE NoRule

\* the `for rule in rules` loop of apply: the first rule whose .0 equals self
RECURSIVE FindRule(_, _)
FindRule(self, rs) ==
    IF rs = <<>> THEN NoRule
    ELSE IF Head(rs)[1] = self THEN [found |-> TRUE, to |-> Head(rs)[2]]
    ELSE FindRule(self, Tail(rs))

RECURSIVE apply(_, _), FlatMapApply(_, _)

apply(self, rs) ==
    LET m == FindRule(self, rs)
    IN  IF m.found THEN m.to
        ELSE IF self.kind = "Symbol" THEN <<Symbol(self.c)>>
        ELSE <<Branch(FlatMapApply(self.ins, rs))>>

\* instrs.iter().flat_map(|instr| instr.apply(rules)).collect()
FlatMapApply(instrs, rs) ==
    IF instrs = <<>> THEN <<>>
    ELSE apply(Head(instrs), rs) \o FlatMapApply(Tail(instrs), rs)

step(w, rs) == FlatMapApply(w, rs)

-----------------------------------------------------------------------------
(* The turtle (graphics.rs) *)

\* TurtleConfig: delta_ang is a quarter turn, so that an angle is a number of
\* quarter turns and cos / sin are exact; stepsize is 1.
Config == [draw_forward |-> {"F"}, draw_backward |-> {"f"},
           forward |-> {"G"}, backwards |-> {"g"}]

QuarterTurns == 4
cos(a) == CASE a = 0 -> 1 [] a = 1 -> 0 [] a = 2 -> -1 [] OTHER -> 0
sin(a) == CASE a = 0 -> 0 [] a = 1 -> 1 [] a = 2 -> 0 [] OTHER -> -1

classify(symbol) ==
    IF symbol \in Config.draw_forward THEN "DrawForward"
    ELSE IF symbol \in Config.draw_backward THEN "DrawBackward"
    ELSE IF symbol \in Config.forward THEN "Forward"
    ELSE IF symbol \in Config.backwards THEN "Backward"
    ELSE "None"

Turtle(x, y, angle) == [x |-> x, y |-> y, angle |-> angle]
with_config == Turtle(0, 0, 0)
pos(t) == <<t.x, t.y>>
\* the two points handed to Graphics::draw_line
Segment(c_0, c_1) == <<c_0, c_1>>
step_forward(t) == [t EXCEPT !.x = t.x + cos(t.angle), !.y = t.y + sin(t.angle)]
step_backwards(t) == [t EXCEPT !.x = t.x - cos(t.angle), !.y = t.y - sin(t.angle)]
turn_left(t) == [t EXCEPT !.angle = (t.angle - 1) % QuarterTurns]
turn_right(t) == [t EXCEPT !.angle = (t.angle + 1) % QuarterTurns]

\* One activation of draw: its turtle (self), the instructions its loop has
\* still to visit, and (history) the caller's turtle when it was entered.
Frame(t, instrs, saved) == [self |-> t, instrs |-> instrs, saved |-> saved]

-----------------------------------------------------------------------------
(* Bounds and the inputs drawn from them *)

MaxLen == 3          \* texts over the parser's character classes
MaxAnyLen == 2       \* texts over every character of the model
MaxBracketLen == 5   \* texts over a symbol, the brackets and a blank
MaxSegments == 2     \* rule segments after the axiom of a composed text
MaxAxiomLen == 2     \* axiom of a grammar handed to the rewriting engine
MaxRules == 2        \* rules of a grammar handed to the rewriting engine
MaxPulls == 4        \* calls of next() between two resets
MaxRuleList == 3     \* rule lists handed to apply directly
MaxDrawLen == 6      \* instruction texts handed to the turtle
MaxShortDraw == 3    \* the same, over every turtle symbol

AllChars == {"F", "A", "+", "-", ">", "[", "]", ";", " ", "\n", "\t", "\r", Eacute}
\* one character of each class the parser tells apart, and the two of "->"
Alphabet == {"F", "-", ">", "[", "]", ";", " "}
Blanks == {" ", "\n", "\t"}

AxiomPieces == {<<"F">>, <<"F", "[", "A", "]">>, <<" ", "[", "F", "]", "\t", "A">>,
                <<"F", "[">>, <<>>, <<"-", ">">>}
RulePieces == {<<"F", "-", ">", "A", "F", ";">>,
               <<" ", "A", " ", "-", ">", "\n", "[", "F", "]", " ", ";">>,
               <<"A", "-", ">", ";">>,
               <<"-", "-", ">", "F", ";">>,
               <<"A", "-", ">", "F">>,
               <<"A", "F", ";">>,
               <<"A", "-", ">", "F", "]", ";">>}

ParserInputs ==
    SeqsUpTo(Alphabet, MaxLen)
    \cup SeqsUpTo(AllChars, MaxAnyLen)
    \cup SeqsUpTo({"F", "[", "]", " "}, MaxBracketLen)
    \cup {a \o <<";">> \o Concat(rs) :
            a \in AxiomPieces, rs \in SeqsUpTo(RulePieces, MaxSegments)}
    \cup {<<"F","G","F","G","H","A","[","D","O","A","I","J","D">>,
          <<"F","G","F","G","H","A","[","D","O","A","I","J","D","]","]">>,
          <<"F","G","[","F","G","F","]","F","G">>,
          <<" "," ","\t","\n","A","-",">","K","J","H">>,
          <<"A","-",">","K","J","H">>}

GrammarRules == {<<"F", "-", ">", "G", "F", ";">>,
                 <<"G", "-", ">", "F", ";">>,
                 <<"F", "-", ">", "F", "[", "G", "]", ";">>,
                 <<"G", "-", ">", "[", "[", "F", "]", "]", ";">>,
                 <<"G", "-", ">", ";">>,
                 <<"[", "G", "]", "-", ">", "F", ";">>}

GrammarInputs ==
    {a \o <<";">> \o Concat(rs) :
        a \in SeqsUpTo({"F", "G", "[", "]"}, MaxAxiomLen),
        rs \in SeqsUpTo(GrammarRules, MaxRules)}

ApplyArgs == {Symbol("A"), Symbol("B"), Symbol("C")}
ApplyRules ==
    {<<Symbol(c), to>> : c \in {"A", "B"},
                         to \in {<<>>, <<Symbol("B")>>, <<Symbol("C")>>,
                                 <<Symbol("A"), Branch(<<Symbol("A")>>)>>}}
ApplyRuleLists == SeqsUpTo(ApplyRules, MaxRuleList)

DrawWords ==
    {instructions(t).val :
        t \in SeqsUpTo({"F", "+", "[", "]"}, MaxDrawLen)
              \cup SeqsUpTo({"F", "f", "G", "g", "X", "+", "-", "[", "]"}, MaxShortDraw)
              \cup {<<"[", "F", "[", "F", "F", "]", "F", "]", "F">>,
                    <<"[", "[", "-", "f", "]", "G", "]", "F">>,
                    <<"[", "g", "[", "+", "F", "]", "X", "]", "f">>}}

-----------------------------------------------------------------------------
(* State *)

None == [some |-> FALSE, val |-> <<>>]
Some(v) == [some |-> TRUE, val |-> v]
SinkErrors == {"E1", "E2"}

lsysVars == <<word, axiom, rules, pulls, item>>
applyVars == <<arg, out>>
drawVars == <<stack, ret, lines, calls, restored>>
parseVars == <<input, called, result>>

-----------------------------------------------------------------------------
(* The parser's entry points *)

InitParser ==
    /\ input \in ParserInputs
    /\ pc = "start"
    /\ called = "none" /\ result = Err(<<>>)
    /\ word = <<>> /\ axiom = <<>> /\ rules = <<>> /\ pulls = 0 /\ item = None
    /\ arg = Symbol("A") /\ out = <<>>
    /\ stack = <<>> /\ ret = "none" /\ lines = <<>>
    /\ calls = <<>> /\ restored = with_config

CallInstructions ==
    /\ pc = "start"
    /\ called' = "instructions"
    /\ result' = instructions(input)
    /\ pc' = "done"
    /\ UNCHANGED <<input, lsysVars, applyVars, drawVars>>

CallRule ==
    /\ pc = "start"
    /\ called' = "rule"
    /\ result' = rule(input)
    /\ pc' = "done"
    /\ UNCHANGED <<input, lsysVars, applyVars, drawVars>>

\* LSystem::from_str: on success the caller owns the LSystem
FromStr ==
    /\ pc = "start"
    /\ called' = "from_str"
    /\ result' = from_str(input)
    /\ IF result'.ok
       THEN /\ word' = result'.val.word
            /\ axiom' = result'.val.axiom
            /\ rules' = result'.val.rules
            /\ pc' = "iter"
       ELSE /\ UNCHANGED <<word, axiom, rules>>
            /\ pc' = "done"
    /\ UNCHANGED <<input, pulls, item, applyVars, drawVars>>

NextParser == CallInstructions \/ CallRule \/ FromStr

SpecParser == InitParser /\ [][NextParser]_vars

-----------------------------------------------------------------------------
(* The rewriting engine: Iterator::next and reset on a parsed LSystem *)

InitLSystem ==
    /\ input \in GrammarInputs
    /\ pc = "start"
    /\ called = "none" /\ result = Err(<<>>)
    /\ word = <<>> /\ axiom = <<>> /\ rules = <<>> /\ pulls = 0 /\ item = None
    /\ arg = Symbol("A") /\ out = <<>>
    /\ stack = <<>> /\ ret = "none" /\ lines = <<>>
    /\ calls = <<>> /\ restored = with_config

\* as Pull, but the word is advanced before it is copied out
PullAfterStep ==
    /\ pc = "iter"
    /\ pulls < MaxPulls
    /\ item' = Some(step(word, rules))
    /\ word' = step(word, rules)
    /\ pulls' = pulls + 1
    /\ UNCHANGED <<pc, parseVars, axiom, rules, applyVars, drawVars>>

\* impl Iterator for LSystem: next
Pull ==
    /\ pc = "iter"
    /\ pulls < MaxPulls
    /\ item' = Some(word)
    /\ word' = step(word, rules)
    /\ pulls' = pulls + 1
    /\ UNCHANGED <<pc, parseVars, axiom, rules, applyVars, drawVars>>

Reset ==
    /\ pc = "iter"
    /\ word' = axiom
    /\ pulls' = 0
    /\ UNCHANGED <<pc, parseVars, axiom, rules, item, applyVars, drawVars>>

NextLSystem == FromStr \/ Pull \/ Reset

SpecLSystem == InitLSystem /\ [][NextLSystem]_vars

-----------------------------------------------------------------------------
(* Instruction::apply on a symbol and an arbitrary rule list *)

InitApply ==
    /\ arg \in ApplyArgs
    /\ rules \in ApplyRuleLists
    /\ pc = "start"
    /\ input = <<>> /\ called = "none" /\ result = Err(<<>>)
    /\ word = <<>> /\ axiom = <<>> /\ pulls = 0 /\ item = None
    /\ out = <<>>
    /\ stack = <<>> /\ ret = "none" /\ lines = <<>>
    /\ calls = <<>> /\ restored = with_config

CallApply ==
    /\ pc = "start"
    /\ out' = apply(arg, rules)
    /\ pc' = "done"
    /\ UNCHANGED <<parseVars, lsysVars, arg, drawVars>>

NextApply == CallApply

SpecApply == InitApply /\ [][NextApply]_vars

-----------------------------------------------------------------------------
(* Turtle::draw, one loop iteration or one return at a time *)

InitTurtle ==
    /\ word \in DrawWords
    /\ stack = <<Frame(with_config, word, with_config)>>
    /\ pc = "draw"
    /\ ret = "none" /\ lines = <<>>
    /\ calls = <<>> /\ restored = with_config
    /\ input = <<>> /\ called = "none" /\ result = Err(<<>>)
    /\ axiom = <<>> /\ rules = <<>> /\ pulls = 0 /\ item = None
    /\ arg = Symbol("A") /\ out = <<>>

Top == stack[Len(stack)]
Pop == Take(stack, Len(stack) - 1)
Running == pc = "draw" /\ ret = "none" /\ stack # <<>>
AtInstruction == Running /\ Top.instrs # <<>>
Instr == Head(Top.instrs)
\* the frame after its loop has moved past the current instruction with turtle t
Advance(t) == [Top EXCEPT !.self = t, !.instrs = Tail(Top.instrs)]
SetTop(f) == [stack EXCEPT ![Len(stack)] = f]

\* Symbol('+') => self.turn_left(), Symbol('-') => self.turn_right()
Turn ==
    /\ AtInstruction
    /\ Instr.kind = "Symbol" /\ Instr.c \in {"+", "-"}
    /\ stack' = SetTop(Advance(IF Instr.c = "+" THEN turn_left(Top.self)
                                                ELSE turn_right(Top.self)))
    /\ UNCHANGED <<pc, ret, lines, calls, restored, parseVars, lsysVars, applyVars>>

\* Symbol(c) with no sink call: Forward, Backward, or a symbol classify rejects
Move ==
    /\ AtInstruction
    /\ Instr.kind = "Symbol" /\ Instr.c \notin {"+", "-"}
    /\ classify(Instr.c) \in {"Forward", "Backward", "None"}
    /\ stack' = SetTop(Advance(
                    CASE classify(Instr.c) = "Forward" -> step_forward(Top.self)
                      [] classify(Instr.c) = "Backward" -> step_backwards(Top.self)
                      [] OTHER -> Top.self))
    /\ UNCHANGED <<pc, ret, lines, calls, restored, parseVars, lsysVars, applyVars>>

\* the turtle after a DrawForward / DrawBackward step
Stepped == IF classify(Instr.c) = "DrawForward" THEN step_forward(Top.self)
           ELSE step_backwards(Top.self)

IsDraw ==
    /\ AtInstruction
    /\ Instr.kind = "Symbol" /\ Instr.c \notin {"+", "-"}
    /\ classify(Instr.c) \in {"DrawForward", "DrawBackward"}

\* graphics.draw_line(before, self.pos()) returns Ok(())
DrawLineOk ==
    /\ IsDraw
    /\ lines' = Append(lines, Segment(pos(Top.self), pos(Stepped)))
    /\ calls' = Append(calls, "Ok")
    /\ stack' = SetTop(Advance(Stepped))
    /\ UNCHANGED <<pc, ret, restored, parseVars, lsysVars, applyVars>>

\* graphics.draw_line(before, self.pos()) returns Err(e): `?` returns it
DrawLineErr ==
    /\ IsDraw
    /\ \E e \in SinkErrors :
          /\ calls' = Append(calls, e)
          /\ ret' = e
    /\ stack' = Pop
    /\ pc' = IF stack' = <<>> THEN "done" ELSE pc
    /\ UNCHANGED <<lines, restored, parseVars, lsysVars, applyVars>>

\* Branch(ins) => self.clone().draw(graphics, ins): a new activation
EnterBranch ==
    /\ AtInstruction
    /\ Instr.kind = "Branch"
    /\ stack' = Append(SetTop(Advance(Top.self)),
                       Frame(Top.self, Instr.ins, Top.self))
    /\ UNCHANGED <<pc, ret, lines, calls, restored, parseVars, lsysVars, applyVars>>

\* as ReturnOk, but the branch ran on the caller's turtle, not on a clone
ReturnOkShared ==
    /\ Running
    /\ Top.instrs = <<>>
    /\ ret' = "Ok"
    /\ restored' = Top.saved
    /\ stack' = IF Len(stack) = 1 THEN Pop
                ELSE [Pop EXCEPT ![Len(stack) - 1].self = Top.self]
    /\ pc' = IF stack' = <<>> THEN "done" ELSE pc
    /\ UNCHANGED <<lines, calls, parseVars, lsysVars, applyVars>>

\* the loop is over: Ok(())
ReturnOk ==
    /\ Running
    /\ Top.instrs = <<>>
    /\ ret' = "Ok"
    /\ restored' = Top.saved
    /\ stack' = Pop
    /\ pc' = IF stack' = <<>> THEN "done" ELSE pc
    /\ UNCHANGED <<lines, calls, parseVars, lsysVars, applyVars>>

\* as Question, but the branch's result is dropped
QuestionDropped ==
    /\ pc = "draw" /\ ret # "none" /\ stack # <<>>
    /\ ret' = "none"
    /\ UNCHANGED <<stack, pc, lines, calls, restored, parseVars, lsysVars, applyVars>>

\* the `?` after the recursive call: go on after Ok, return the error after Err
Question ==
    /\ pc = "draw" /\ ret # "none" /\ stack # <<>>
    /\ IF ret = "Ok"
       THEN /\ ret' = "none"
            /\ UNCHANGED <<stack, pc>>
       ELSE /\ stack' = Pop
            /\ pc' = IF stack' = <<>> THEN "done" ELSE pc
            /\ UNCHANGED ret
    /\ UNCHANGED <<lines, calls, restored, parseVars, lsysVars, applyVars>>

NextTurtle ==
    Turn \/ Move \/ DrawLineOk \/ DrawLineErr \/ EnterBranch \/ ReturnOk \/ Question

SpecTurtle == InitTurtle /\ [][NextTurtle]_vars

-----------------------------------------------------------------------------
(* Measures of instruction trees, and texts as instruction sequences *)

Symbols(text) == [i \in 1..Len(text) |-> Symbol(text[i])]

Max(S) == CHOOSE m \in S : \A k \in S : k <= m
Min(S) == CHOOSE m \in S : \A k \in S : m <= k

RECURSIVE Sum(_)
Sum(ns) == IF ns = <<>> THEN 0 ELSE Head(ns) + Sum(Tail(ns))

RECURSIVE NumBranches(_)
NumBranches(instrs) ==
    Sum([i \in 1..Len(instrs) |->
            IF instrs[i].kind = "Branch" THEN 1 + NumBranches(instrs[i].ins) ELSE 0])

RECURSIVE Depth(_)
Depth(instrs) ==
    Max({0} \cup {1 + Depth(instrs[i].ins) :
                    i \in {k \in 1..Len(instrs) : instrs[k].kind = "Branch"}})

\* every instruction of a tree, at any depth
RECURSIVE Nodes(_)
Nodes(instrs) ==
    UNION {{instrs[i]} \cup Nodes(instrs[i].ins) : i \in 1..Len(instrs)}

-----------------------------------------------------------------------------
(* C1 *)

RECURSIVE StepN(_, _, _)
StepN(w, rs, n) == IF n = 0 THEN w ELSE StepN(step(w, rs), rs, n - 1)

FibInput == <<"F", ";", "F", "-", ">", "G", "F", ";", "G", "-", ">", "F", ";">>
FibWords == << <<"F">>, <<"G", "F">>, <<"F", "G", "F">>, <<"G", "F", "F", "G", "F">> >>

\* C1: on a parsed LSystem, after any sequence of next() and reset() calls, every
\* next() has returned Some(word) with word = step^(n-1)(axiom), n the number of
\* next() calls since the last reset (or construction); axiom and rules are
\* those of construction; F with F->GF, G->F yields F, GF, FGF, GFFGF.
C1_PullYieldsGeneration ==
    pc = "iter" =>
        /\ axiom = result.val.axiom
        /\ rules = result.val.rules
        /\ word = StepN(axiom, rules, pulls)
        /\ pulls > 0 => item = Some(StepN(axiom, rules, pulls - 1))
        /\ (input = FibInput /\ pulls \in 1..Len(FibWords))
              => item = Some(Symbols(FibWords[pulls]))

\* four generations were pulled from the Fibonacci grammar, then reset() ran
C1_Witness ==
    /\ pc = "iter" /\ input = FibInput
    /\ pulls = 0
    /\ item = Some(Symbols(FibWords[4]))
    /\ word = Symbols(FibWords[1])

-----------------------------------------------------------------------------
(* C2 *)

Matches(self, rs) == {i \in 1..Len(rs) : rs[i][1] = self}

\* C2: apply(Symbol(c), rules) is the right-hand side of the first rule, in
\* declaration order, whose left-hand side is Symbol(c), and is [Symbol(c)] when
\* there is none; with rules [(A->B), (A->C)], apply(Symbol(A)) is B.
C2_FirstMatchWins ==
    pc = "done" =>
        /\ Matches(arg, rules) = {} => out = <<arg>>
        /\ Matches(arg, rules) # {} => out = rules[Min(Matches(arg, rules))][2]
        /\ (arg = Symbol("A")
            /\ Len(rules) >= 2
            /\ rules[1] = <<Symbol("A"), <<Symbol("B")>> >>
            /\ rules[2] = <<Symbol("A"), <<Symbol("C")>> >>) => out = <<Symbol("B")>>

\* apply ran on Symbol(A) with rules [(A->B), (A->C)]
C2_Witness ==
    /\ pc = "done"
    /\ arg = Symbol("A")
    /\ rules = << <<Symbol("A"), <<Symbol("B")>> >>, <<Symbol("A"), <<Symbol("C")>> >> >>
    /\ out = <<Symbol("B")>>

-----------------------------------------------------------------------------
(* C5 *)

\* One generation of rewriting: a Branch is rewritten only inside, a
\* symbol by the first rule naming it.
RECURSIVE Rewritten(_, _)
Rewritten(instrs, rs) ==
    Concat([i \in 1..Len(instrs) |->
              IF instrs[i].kind = "Branch"
              THEN <<Branch(Rewritten(instrs[i].ins, rs))>>
              ELSE IF Matches(instrs[i], rs) = {} THEN <<instrs[i]>>
              ELSE rs[Min(Matches(instrs[i], rs))][2]])

\* C5: on a parsed LSystem a rewrite step maps every Branch(inner), at any
\* depth, to one Branch in the same place holding the concatenated rewritings of
\* inner's children; no step lowers the number of Branch nodes or the depth.
C5_BranchesKept ==
    (pc = "iter" /\ pulls > 0) =>
        /\ word = Rewritten(item.val, rules)
        /\ \A b \in Nodes(item.val) :
              b.kind = "Branch" =>
                 apply(b, rules) = <<Branch(Rewritten(b.ins, rules))>>
        /\ NumBranches(word) >= NumBranches(item.val)
        /\ Depth(word) >= Depth(item.val)

\* a step rewrote F and the inside of the branch, and kept the branch in place
C5_Witness ==
    /\ pc = "iter" /\ pulls = 3
    /\ input = <<"F", ";", "F", "-", ">", "F", "[", "G", "]", ";",
                 "G", "-", ">", "[", "[", "F", "]", "]", ";">>
    /\ item = Some(<<Symbol("F"), Branch(<<Symbol("G")>>),
                     Branch(<<Branch(<<Branch(<<Symbol("F")>>)>>)>>)>>)
    /\ NumBranches(word) > NumBranches(item.val)
    /\ Depth(word) > Depth(item.val)

-----------------------------------------------------------------------------
(* Texts cut at ";" *)

SemiPositions(t) == {i \in 1..Len(t) : t[i] = ";"}

\* the pieces of t that a ";" ends, in order
RECURSIVE Segments(_)
Segments(t) ==
    IF SemiPositions(t) = {} THEN <<>>
    ELSE <<Take(t, Min(SemiPositions(t)) - 1)>> \o Segments(Drop(t, Min(SemiPositions(t))))

\* what follows the last ";" (the whole text when there is none)
LastPart(t) == Drop(t, Max({0} \cup SemiPositions(t)))

WellFormedAxiom(seg) == instructions(seg).rest = <<>>
WellFormedRule(seg) == rule(seg).ok /\ rule(seg).rest = <<>>

AxiomTerminated(t) == Segments(t) # <<>> /\ WellFormedAxiom(Segments(t)[1])

\* how many well-formed, terminated rules follow the axiom without a gap
LeadingRules(segs) ==
    Max({k \in 0..(Len(segs) - 1) : \A i \in 1..k : WellFormedRule(segs[i + 1])})

-----------------------------------------------------------------------------
(* C6 *)

\* C6: from_str succeeds on a text that starts with a well-formed axiom ended
\* by ";" and zero or more well-formed rules each ended by ";", whatever
\* follows; what follows is dropped, and the LSystem holds that axiom and those
\* rules, in order.
C6_TrailingTextDiscarded ==
    (called = "from_str" /\ AxiomTerminated(input)) =>
        LET segs == Segments(input)
            n == LeadingRules(segs)
        IN  /\ result.ok
            /\ result.val.axiom = instructions(segs[1]).val
            /\ result.val.word = result.val.axiom
            /\ Len(result.val.rules) = n
            /\ \A i \in 1..n : result.val.rules[i] = rule(segs[i + 1]).val

\* one terminated rule was kept and the unterminated text after it dropped
C6_Witness ==
    /\ called = "from_str"
    /\ input = <<"F", ";", "F", "-", ">", "A", "F", ";", "A", "-", ">", "F", "]", ";">>
    /\ result.ok
    /\ result.val.rules = << <<Symbol("F"), <<Symbol("A"), Symbol("F")>> >> >>

-----------------------------------------------------------------------------
(* C7 *)

\* the text ends in a well-formed rule that no ";" follows
UnterminatedRule(t) == LastPart(t) # <<>> /\ WellFormedRule(LastPart(t))

\* C7 as stated: from_str returns an error whenever the axiom or a rule of
\* the text is missing its trailing ";".
C7_UnterminatedRejected ==
    (called = "from_str" /\ (~AxiomTerminated(input) \/ UnterminatedRule(input)))
        => ~result.ok

\* C7 as amended: from_str returns an error whenever the axiom is missing its
\* trailing ";"; a rule missing its ";" is no error: it ends the collection of
\* rules and the parse succeeds with the rules terminated before it.
C7_UnterminatedAxiomRejected ==
    called = "from_str" =>
        /\ ~AxiomTerminated(input) => ~result.ok
        /\ (AxiomTerminated(input) /\ UnterminatedRule(input)) =>
              /\ result.ok
              /\ Len(result.val.rules) <= Len(Segments(input)) - 1
              /\ rule(LastPart(input)).val \notin
                    {result.val.rules[i] : i \in Len(Segments(input))..Len(result.val.rules)}

\* a well-formed rule text without any ";" was rejected as an axiom
C7_Witness ==
    /\ called = "from_str"
    /\ input = <<"A", "-", ">", "K", "J", "H">>
    /\ ~result.ok

-----------------------------------------------------------------------------
(* C8 *)

Reserved == {"[", "]", ";", " ", "\n", "\t"}

\* C8: every character other than "[", "]", ";", blank, newline and tab is
\* accepted as a literal instruction and gives Symbol(c), "+" and "-" included;
\* no Symbol of a parse result carries "[", "]", ";" or whitespace.
C8_EveryOtherCharIsSymbol ==
    called = "instructions" =>
        /\ (\A i \in 1..Len(input) : input[i] \notin Reserved) =>
              /\ result.ok
              /\ result.rest = <<>>
              /\ result.val = Symbols(input)
        /\ \A n \in Nodes(result.val) :
              n.kind = "Symbol" => (n.c \notin Reserved /\ ~is_whitespace(n.c))

-----------------------------------------------------------------------------
(* C9 *)

InsertAt(t, i, w) == Take(t, i) \o <<w>> \o Drop(t, i)

\* place i of t (after its i-th character) is not inside a "->"
BetweenTokens(t, i) == ~(i >= 1 /\ i < Len(t) /\ t[i] = "-" /\ t[i + 1] = ">")

Entry(name, t) ==
    CASE name = "instructions" -> instructions(t)
      [] name = "rule" -> rule(t)
      [] OTHER -> from_str(t)

ParsesTo(name, t, v) == LET r == Entry(name, t) IN r.ok /\ r.val = v

\* every instruction of a parse result, whichever entry point gave it
ResultNodes(name, v) ==
    CASE name = "instructions" -> Nodes(v)
      [] name = "rule" -> Nodes(<<v[1]>>) \cup Nodes(v[2])
      [] OTHER -> Nodes(v.axiom) \cup Nodes(v.word)
                    \cup UNION {Nodes(<<v.rules[i][1]>>) \cup Nodes(v.rules[i][2]) :
                                  i \in 1..Len(v.rules)}

\* C9: for a text that parses, a blank, tab or newline inserted between two
\* tokens leaves the parse result structurally equal, and no whitespace is in
\* the instruction tree; "  \t\nA->KJH" parses to the rule "A->KJH" parses to.
C9_WhitespaceInsignificant ==
    (called # "none" /\ result.ok) =>
        /\ \A i \in 0..Len(input) : \A w \in Blanks :
              BetweenTokens(input, i) => ParsesTo(called, InsertAt(input, i, w), result.val)
        /\ \A n \in ResultNodes(called, result.val) :
              n.kind = "Symbol" => n.c \notin Blanks
        /\ (called = "rule" /\ input = <<" ", " ", "\t", "\n", "A", "-", ">", "K", "J", "H">>)
              => result.val = rule(<<"A", "-", ">", "K", "J", "H">>).val

\* the rule text with blanks, a tab and a newline before its left-hand side
C9_Witness ==
    /\ called = "rule"
    /\ input = <<" ", " ", "\t", "\n", "A", "-", ">", "K", "J", "H">>
    /\ result.ok
    /\ result.val = <<Symbol("A"), Symbols(<<"K", "J", "H">>)>>

-----------------------------------------------------------------------------
(* C10 *)

Count(t, c) == Cardinality({i \in 1..Len(t) : t[i] = c})

Balanced(t) ==
    /\ Count(t, "[") = Count(t, "]")
    /\ \A k \in 1..Len(t) : Count(Take(t, k), "]") <= Count(Take(t, k), "[")

\* a character the parser takes as a symbol
IsSymbolChar(c) == single_instruction(<<c>>).ok

\* made of symbols, blanks and brackets only
OnlyTokens(t) ==
    \A i \in 1..Len(t) : t[i] \in {"[", "]"} \cup Blanks \/ IsSymbolChar(t[i])

\* made of symbols, blanks and balanced bracket pairs
WellFormed(t) == OnlyTokens(t) /\ Balanced(t)

LongestWellFormed(t) == Max({k \in 0..Len(t) : WellFormed(Take(t, k))})

RECURSIVE Unparse(_)
Unparse(instrs) ==
    Concat([i \in 1..Len(instrs) |->
              IF instrs[i].kind = "Branch"
              THEN <<"[">> \o Unparse(instrs[i].ins) \o <<"]">>
              ELSE <<instrs[i].c>>])

WithoutBlanks(t) == SelectSeq(t, LAMBDA c : c \notin Blanks)

\* C10: instructions never fails; it returns the tree of the longest prefix made
\* of symbols, whitespace and balanced bracket pairs, each pair one Branch, and
\* leaves the rest, which in a text of symbols, whitespace and brackets starts
\* at the first bracket outside a balanced pair: "FGFGHA[DOAIJD" leaves
\* "[DOAIJD", "FGFGHA[DOAIJD]]" leaves "]"; "FG[FGF]FG" is consumed whole.
C10_LongestBalancedPrefix ==
    called = "instructions" =>
        LET k == LongestWellFormed(input)
        IN  /\ result.ok
            /\ result.rest = Drop(input, k)
            /\ Unparse(result.val) = WithoutBlanks(Take(input, k))
            /\ NumBranches(result.val) = Count(Take(input, k), "[")
            /\ (result.rest # <<>> /\ OnlyTokens(input)) =>
                  /\ result.rest[1] \in {"[", "]"}
                  /\ \A j \in 1..Len(result.rest) : ~Balanced(Take(result.rest, j))
            /\ (result.rest = <<>> /\ OnlyTokens(input)) => Balanced(input)
            /\ input = <<"F","G","F","G","H","A","[","D","O","A","I","J","D">>
                  => result.rest = <<"[","D","O","A","I","J","D">>
            /\ input = <<"F","G","F","G","H","A","[","D","O","A","I","J","D","]","]">>
                  => result.rest = <<"]">>
            /\ input = <<"F","G","[","F","G","F","]","F","G">>
                  => /\ result.rest = <<>>
                     /\ result.val = Symbols(<<"F", "G">>)
                                     \o <<Branch(Symbols(<<"F", "G", "F">>))>>
                                     \o Symbols(<<"F", "G">>)

\* the balanced part was parsed and the surplus "]" left over
C10_Witness ==
    /\ called = "instructions"
    /\ input = <<"F","G","F","G","H","A","[","D","O","A","I","J","D","]","]">>
    /\ result.rest = <<"]">>
    /\ NumBranches(result.val) = 1

-----------------------------------------------------------------------------
(* C3 *)

\* C3: when a branch has been drawn without error, the turtle the caller goes on
\* with is the one it had right before the branch, whatever the branch did and
\* however deep it nests; [F]F from (0,0,0) emits two segments, the second
\* starting at (0,0).
C3_BranchRestoresState ==
    /\ (pc = "draw" /\ ret = "Ok" /\ stack # <<>>) => Top.self = restored
    /\ \A i \in 2..Len(stack) : stack[i].saved = stack[i - 1].self
    /\ (pc = "done" /\ ret = "Ok"
        /\ word = <<Branch(<<Symbol("F")>>), Symbol("F")>>)
          => lines = <<Segment(<<0, 0>>, <<1, 0>>), Segment(<<0, 0>>, <<1, 0>>)>>

\* [F]F was drawn: two segments, both from the origin
C3_Witness ==
    /\ pc = "done" /\ ret = "Ok"
    /\ word = <<Branch(<<Symbol("F")>>), Symbol("F")>>
    /\ Len(lines) = 2
    /\ lines[2][1] = <<0, 0>>

-----------------------------------------------------------------------------
(* C4 *)

\* C4: once draw_line has returned an error, at any depth, no further
\* draw_line call is made, every activation returns that error up to the
\* top-level caller, and the segments recorded before it stay recorded.
C4_ErrorAbortsTraversal ==
    /\ \A i \in 1..Len(calls) :
          calls[i] # "Ok" => (i = Len(calls) /\ ret = calls[i])
    /\ Len(lines) = Cardinality({i \in 1..Len(calls) : calls[i] = "Ok"})
    /\ (pc = "done" /\ ret = "Ok") => \A i \in 1..Len(calls) : calls[i] = "Ok"

\* the second draw_line call, two branches deep with siblings left at each
\* level, failed; the first segment is still recorded
C4_Witness ==
    /\ pc = "done"
    /\ word = instructions(<<"[", "F", "[", "F", "F", "]", "F", "]", "F">>).val
    /\ calls = <<"Ok", "E2">>
    /\ ret = "E2"
    /\ lines = <<Segment(<<0, 0>>, <<1, 0>>)>>

====
